---------------------------- MODULE Spec2Model ----------------------------
(***************************************************************************)
(* A model of src/app.py: the substring classifiers (is_code,              *)
(* detect_language, estimate_time_complexity, estimate_space_complexity),  *)
(* the performance modeler (estimate_compile_time, estimate_execution_time,*)
(* speed_class, platform_runtimes) and the route handler index.            *)
(*                                                                         *)
(* A Python str is a tuple of one-character strings, so that `in`, count   *)
(* and lower are computed character by character as the interpreter does.  *)
(* Display strings the program only returns (labels, report values) are    *)
(* TLA+ strings; the four non-ASCII ones are written in ASCII:             *)
(*   "O(n^2)" for O(n-superscript-2), " ms (n = 10^5)" for the superscript *)
(*   5, "40-150 ms" / "200-500 ms" for the en dash, and the speed labels   *)
(*   without their trailing emoji.                                         *)
(***************************************************************************)
EXTENDS Integers, Sequences, FiniteSets, TLC

(***************************************************************************)
(* Bounds of the model.                                                    *)
(***************************************************************************)
\* The largest number of vocabulary fragments a composed input is made of.
MaxFrags == 3

(***************************************************************************)
(* Python str operations.                                                  *)
(***************************************************************************)
\* s[i : i + len(p)] == p
MatchAt(s, p, i) ==
    /\ i >= 1
    /\ i + Len(p) - 1 <= Len(s)
    /\ \A j \in 1..Len(p) : s[i + j - 1] = p[j]

\* p in s
Contains(s, p) == \E i \in 1..(Len(s) - Len(p) + 1) : MatchAt(s, p, i)

\* s.count(p) from position i on: occurrences are counted left to right and
\* do not overlap (p is never empty here).
RECURSIVE CountFrom(_, _, _)
CountFrom(s, p, i) ==
    IF i + Len(p) - 1 > Len(s) THEN 0
    ELSE IF MatchAt(s, p, i) THEN 1 + CountFrom(s, p, i + Len(p))
    ELSE CountFrom(s, p, i + 1)

\* s.count(p)
Count(s, p) == CountFrom(s, p, 1)

\* any(k in s for k in ks), ks a list of strings
AnyIn(ks, s) == \E k \in 1..Len(ks) : Contains(s, ks[k])

\* The letters str.lower() changes (the inputs of the model are ASCII).
UpperToLower ==
    [A |-> "a", B |-> "b", C |-> "c", D |-> "d", E |-> "e", F |-> "f", G |-> "g",
     H |-> "h", I |-> "i", J |-> "j", K |-> "k", L |-> "l", M |-> "m", N |-> "n",
     O |-> "o", P |-> "p", Q |-> "q", R |-> "r", S |-> "s", T |-> "t", U |-> "u",
     V |-> "v", W |-> "w", X |-> "x", Y |-> "y", Z |-> "z"]

\* s.lower()
Lower(s) ==
    [i \in 1..Len(s) |-> IF s[i] \in DOMAIN UpperToLower THEN UpperToLower[s[i]] ELSE s[i]]

(***************************************************************************)
(* INPUT TYPE & LANGUAGE DETECTION                                         *)
(***************************************************************************)
\* symbols = ["def ", "{", "}", ";", "#include", "public static", "()"]
symbols ==
    << <<"d","e","f"," ">>, <<"{">>, <<"}">>, <<";">>,
       <<"#","i","n","c","l","u","d","e">>,
       <<"p","u","b","l","i","c"," ","s","t","a","t","i","c">>,
       <<"(",")">> >>

\* Mutant: the empty parameter list "()" is not among the symbols.
is_code_without_parens(text) == AnyIn(SubSeq(symbols, 1, 6), text)

\* Mutant: "public static" is not among the symbols.
is_code_without_public_static(text) ==
    AnyIn(SubSeq(symbols, 1, 5) \o SubSeq(symbols, 7, 7), text)

is_code(text) == AnyIn(symbols, text)

\* The four literals detect_language looks for, in the order it looks.
kw_def == <<"d","e","f"," ">>
kw_include == <<"#","i","n","c","l","u","d","e">>
kw_main ==
    <<"p","u","b","l","i","c"," ","s","t","a","t","i","c"," ","v","o","i","d"," ","m","a","i","n">>
kw_function == <<"f","u","n","c","t","i","o","n">>

\* Mutant: the check for "function" comes first.
detect_language_function_first(code) ==
    IF Contains(code, kw_function) THEN "JavaScript"
    ELSE IF Contains(code, kw_def) THEN "Python"
    ELSE IF Contains(code, kw_include) THEN "C / C++"
    ELSE IF Contains(code, kw_main) THEN "Java"
    ELSE "Unknown"

detect_language(code) ==
    IF Contains(code, kw_def) THEN "Python"
    ELSE IF Contains(code, kw_include) THEN "C / C++"
    ELSE IF Contains(code, kw_main) THEN "Java"
    ELSE IF Contains(code, kw_function) THEN "JavaScript"
    ELSE "Unknown"

(***************************************************************************)
(* STATIC COMPLEXITY ANALYSIS                                              *)
(***************************************************************************)
kw_for == <<"f","o","r">>
kw_while == <<"w","h","i","l","e">>
\* ["sort(", "sorted("]
sort_calls == << <<"s","o","r","t","(">>, <<"s","o","r","t","e","d","(">> >>

\* loops = code.count("for") + code.count("while")
loops(code) == Count(code, kw_for) + Count(code, kw_while)
\* Mutant: only "sorted(" counts as a sorting call.
sorting_sorted_only(code) == Contains(code, sort_calls[2])

\* sorting = any(k in code for k in ["sort(", "sorted("])
sorting(code) == AnyIn(sort_calls, code)
\* recursion = code.count("def ") > 1
recursion(code) == Count(code, kw_def) > 1

\* Mutant: the two-loops rule is consulted before the sorting rule.
estimate_time_complexity_loops_first(code) ==
    IF loops(code) >= 2 THEN "O(n^2)"
    ELSE IF sorting(code) /\ loops(code) # 0 THEN "O(n log n)"
    ELSE IF recursion(code) THEN "O(n)"
    ELSE IF loops(code) = 1 THEN "O(n)"
    ELSE "O(1)"

estimate_time_complexity(code) ==
    IF sorting(code) /\ loops(code) # 0 THEN "O(n log n)"
    ELSE IF loops(code) >= 2 THEN "O(n^2)"
    ELSE IF recursion(code) THEN "O(n)"
    ELSE IF loops(code) = 1 THEN "O(n)"
    ELSE "O(1)"

\* ["list", "[]", "{}", "dict", "set"]
containers ==
    << <<"l","i","s","t">>, <<"[","]">>, <<"{","}">>, <<"d","i","c","t">>, <<"s","e","t">> >>

\* Mutant: the input is not lower-cased.
estimate_space_complexity_case_sensitive(code) ==
    IF AnyIn(containers, code) THEN "O(n)" ELSE "O(1)"

estimate_space_complexity(code) ==
    IF AnyIn(containers, Lower(code)) THEN "O(n)" ELSE "O(1)"

(***************************************************************************)
(* PERFORMANCE ESTIMATION                                                  *)
(***************************************************************************)
estimate_compile_time(language) ==
    IF language = "Python" THEN "0 ms (interpreted)"
    ELSE IF language = "C / C++" THEN "40-150 ms"
    ELSE IF language = "Java" THEN "200-500 ms"
    ELSE "Unknown"

\* Assumed input size
n == 100000

\* ops, kept as the two factors of the product the code computes (n * 17,
\* n * n), since n * n does not fit the model checker's 32-bit integers;
\* Python's int is unbounded.
ops(tc) ==
    IF tc = "O(1)" THEN <<1, 1>>
    ELSE IF tc = "O(n)" THEN <<n, 1>>
    ELSE IF tc = "O(n log n)" THEN <<n, 17>>
    ELSE IF tc = "O(n^2)" THEN <<n, n>>
    ELSE <<n, 1>>

\* {"Python": 5_000_000, "Java": 15_000_000, "C / C++": 30_000_000}.get(language, 5_000_000)
ops_per_ms(language) ==
    IF language = "Python" THEN 5000000
    ELSE IF language = "Java" THEN 15000000
    ELSE IF language = "C / C++" THEN 30000000
    ELSE 5000000

RECURSIVE Gcd(_, _)
Gcd(a, b) == IF b = 0 THEN a ELSE Gcd(b, a % b)

\* Mutant: the quotient is cut after two decimals instead of rounded.
Hundredths_truncated(f, d) ==
    LET g1 == Gcd(f[1], d)
        g2 == Gcd(f[2], d \div g1)
        d2 == (d \div g1) \div g2
        g3 == Gcd(100, d2)
    IN  ((f[1] \div g1) * (f[2] \div g2) * (100 \div g3)) \div (d2 \div g3)

\* round(100 * (f[1] * f[2]) / d): the quotient ms = ops / ops_per_ms in
\* hundredths, rounded to the nearest one as the format ".2f" rounds (a tie
\* goes to the even neighbour).  Common factors are cancelled before
\* multiplying, which leaves the quotient unchanged and keeps every
\* intermediate value within 32 bits.
Hundredths(f, d) ==
    LET g1 == Gcd(f[1], d)
        a1 == f[1] \div g1
        d1 == d \div g1
        g2 == Gcd(f[2], d1)
        a2 == f[2] \div g2
        d2 == d1 \div g2
        g3 == Gcd(100, d2)
        k  == 100 \div g3
        d3 == d2 \div g3
        num == a1 * a2 * k
        q == num \div d3
        r == num % d3
    IN  IF 2 * r > d3 \/ (2 * r = d3 /\ q % 2 = 1) THEN q + 1 ELSE q

\* f"{ms:.2f}" for ms given in hundredths
Format2f(h) ==
    ToString(h \div 100) \o "." \o ToString((h % 100) \div 10) \o ToString(h % 10)

estimate_execution_time(tc, language) ==
    Format2f(Hundredths(ops(tc), ops_per_ms(language))) \o " ms (n = 10^5)"

\* Mutant: the O(n log n) branch is missing.
speed_class_without_risky(tc) ==
    IF tc \in {"O(1)", "O(log n)"} THEN "Very Fast"
    ELSE IF tc = "O(n)" THEN "Fast"
    ELSE "Slow"

speed_class(tc) ==
    IF tc \in {"O(1)", "O(log n)"} THEN "Very Fast"
    ELSE IF tc = "O(n)" THEN "Fast"
    ELSE IF tc = "O(n log n)" THEN "Risky"
    ELSE "Slow"

\* Mutant: the returns after the first one are reached for the classes they
\* were written for.
platform_runtimes_by_class(tc, language) ==
    LET exec_time == estimate_execution_time(tc, language)
    IN  IF tc \in {"O(1)", "O(n)"}
        THEN [leetcode |-> exec_time, codeforces |-> exec_time, hackerrank |-> exec_time]
        ELSE IF tc = "O(n log n)"
        THEN [leetcode |-> exec_time,
              codeforces |-> "Higher variance (may TLE for large n)",
              hackerrank |-> exec_time]
        ELSE [leetcode |-> "Likely TLE", codeforces |-> "Likely TLE",
              hackerrank |-> "Likely TLE"]

\* The function returns at its first return statement; the two returns that
\* follow it in the source are never executed.
platform_runtimes(tc, language) ==
    LET time == estimate_execution_time(tc, language)
    IN  [leetcode |-> time, codeforces |-> time, hackerrank |-> time]

(***************************************************************************)
(* MAIN ROUTE                                                              *)
(***************************************************************************)
\* result = None
None == <<>>

\* The report of the branch is_code(user_input)
CodeReport(user_input) ==
    LET language == detect_language(user_input)
        tc == estimate_time_complexity(user_input)
        runtimes == platform_runtimes(tc, language)
    IN  [type |-> "Code",
         language |-> language,
         time_complexity |-> tc,
         space_complexity |-> estimate_space_complexity(user_input),
         compile_time |-> estimate_compile_time(language),
         execution_time |-> estimate_execution_time(tc, language),
         speed |-> speed_class(tc),
         leetcode_runtime |-> runtimes.leetcode,
         codeforces_runtime |-> runtimes.codeforces,
         hackerrank_runtime |-> runtimes.hackerrank,
         note |-> "All metrics are static estimates based on code structure, not real execution"]

\* The report of the else branch
TextReport ==
    [type |-> "Text / Problem Statement",
     language |-> "N/A",
     time_complexity |-> "Paste code to estimate",
     space_complexity |-> "Paste code to estimate",
     compile_time |-> "N/A",
     execution_time |-> "N/A",
     speed |-> "N/A",
     leetcode_runtime |-> "N/A",
     codeforces_runtime |-> "N/A",
     hackerrank_runtime |-> "N/A",
     note |-> "Static performance analysis requires actual source code"]

\* Mutant: the language is detected for a text submission too.
index_result_detects_text(request_method, user_input) ==
    IF request_method = "POST"
    THEN IF is_code(user_input) THEN CodeReport(user_input)
         ELSE [TextReport EXCEPT !.language = detect_language(user_input)]
    ELSE None

\* The value index passes to the template as result
index_result(request_method, user_input) ==
    IF request_method = "POST"
    THEN IF is_code(user_input) THEN CodeReport(user_input) ELSE TextReport
    ELSE None

(***************************************************************************)
(* The inputs the entry points are run on.                                 *)
(***************************************************************************)
\* Fragments of source text.  Several of the literals the program looks for
\* arise only across two fragments: "()" from "sort(" and ")", "{}" from "{"
\* and "}", "public static void main" from "public static" and " void main";
\* "Set" holds "set" only once lower-cased.
Vocabulary ==
    << <<"d","e","f"," ">>,                      \* "def "
       <<"f","o","r">>,                          \* "for"
       <<"w","h","i","l","e">>,                  \* "while"
       <<"s","o","r","t","(">>,                  \* "sort("
       <<"s","o","r","t","e","d","(">>,          \* "sorted("
       <<")">>,                                  \* ")"
       <<"{">>,                                  \* "{"
       <<"}">>,                                  \* "}"
       <<";">>,                                  \* ";"
       <<"#","i","n","c","l","u","d","e">>,      \* "#include"
       <<"p","u","b","l","i","c"," ","s","t","a","t","i","c">>,   \* "public static"
       <<" ","v","o","i","d"," ","m","a","i","n">>,          \* " void main"
       <<"f","u","n","c","t","i","o","n">>,      \* "function"
       <<"S","e","t">>,                           \* "Set"
       <<"x">> >>                                 \* "x"

RECURSIVE Join(_)
Join(fs) == IF fs = <<>> THEN <<>> ELSE Head(fs) \o Join(Tail(fs))

\* Every text of at most MaxFrags fragments
Composed ==
    { Join([i \in DOMAIN ix |-> Vocabulary[ix[i]]]) :
        ix \in UNION { [1..k -> 1..Len(Vocabulary)] : k \in 0..MaxFrags } }

\* "def bubble_sort(arr):\n for i in range(len(arr)):\n for j in range(len(arr)):\n
\*  if arr[j] > arr[j+1]: arr[j], arr[j+1] = arr[j+1], arr[j]"
BubbleSort ==
    <<"d","e","f"," ","b","u","b","b","l","e","_","s","o","r","t","(","a","r","r",")",":","\n",
      " ","f","o","r"," ","i"," ","i","n"," ","r","a","n","g","e","(","l","e","n","(","a","r",
      "r",")",")",":","\n"," ","f","o","r"," ","j"," ","i","n"," ","r","a","n","g","e","(","l",
      "e","n","(","a","r","r",")",")",":","\n"," ","i","f"," ","a","r","r","[","j","]"," ",">",
      " ","a","r","r","[","j","+","1","]",":"," ","a","r","r","[","j","]",","," ","a","r","r",
      "[","j","+","1","]"," ","="," ","a","r","r","[","j","+","1","]",","," ","a","r","r","[",
      "j","]">>

\* "Given an array, return the maximum subarray sum."
ProblemStatement ==
    <<"G","i","v","e","n"," ","a","n"," ","a","r","r","a","y",","," ","r","e","t","u","r","n",
      " ","t","h","e"," ","m","a","x","i","m","u","m"," ","s","u","b","a","r","r","a","y"," ",
      "s","u","m",".">>

\* Single texts: "x = 1", "def f(): pass", "data = []", "DICT", "list",
\* "arr[j]", "forward", and the two above.
Examples ==
    { <<"x"," ","="," ","1">>,
      <<"d","e","f"," ","f","(",")",":"," ","p","a","s","s">>,
      <<"d","a","t","a"," ","="," ","[","]">>,
      <<"D","I","C","T">>,
      <<"l","i","s","t">>,
      <<"a","r","r","[","j","]">>,
      <<"f","o","r","w","a","r","d">>,
      BubbleSort,
      ProblemStatement }

Inputs == Composed \cup Examples

\* Arguments of the performance modeler: the labels the estimator and the
\* detector return, and for each one label they never return.
ComplexityClasses == {"O(1)", "O(n)", "O(n log n)", "O(n^2)", "O(log n)", "O(2^n)"}
LanguageLabels == {"Python", "C / C++", "Java", "JavaScript", "Unknown", "Rust"}

(***************************************************************************)
(* The state: one invocation of an entry point of the module, with its     *)
(* arguments, before it runs (pc = "call") and after (pc = "return").      *)
(***************************************************************************)
VARIABLES
    pc,             \* "call": the invocation is pending; "return": it has run
    called,         \* the entry point invoked
    method,         \* index: request.method
    input,          \* the string argument: request.form["code"], text or code
    tc_arg,         \* the argument tc
    language_arg,   \* the argument language
    result,         \* index: the result handed to the template
    ret             \* the value a function called directly returned

vars == <<pc, called, method, input, tc_arg, language_arg, result, ret>>

Init ==
    /\ pc = "call"
    /\ result = None
    /\ ret = None
    /\ \/ /\ called = "index"
          /\ method = "GET"
          /\ input = <<>>
          /\ tc_arg = "-"
          /\ language_arg = "-"
       \/ /\ called = "index"
          /\ method = "POST"
          /\ input \in Inputs
          /\ tc_arg = "-"
          /\ language_arg = "-"
       \/ /\ called \in {"is_code", "detect_language", "estimate_time_complexity",
                         "estimate_space_complexity"}
          /\ method = "-"
          /\ input \in Inputs
          /\ tc_arg = "-"
          /\ language_arg = "-"
       \/ /\ called = "estimate_compile_time"
          /\ method = "-"
          /\ input = <<>>
          /\ tc_arg = "-"
          /\ language_arg \in LanguageLabels
       \/ /\ called = "speed_class"
          /\ method = "-"
          /\ input = <<>>
          /\ tc_arg \in ComplexityClasses
          /\ language_arg = "-"
       \/ /\ called \in {"estimate_execution_time", "platform_runtimes"}
          /\ method = "-"
          /\ input = <<>>
          /\ tc_arg \in ComplexityClasses
          /\ language_arg \in LanguageLabels

\* GET / or POST / with form field code = input
index ==
    /\ pc = "call"
    /\ called = "index"
    /\ result' = index_result(method, input)
    /\ pc' = "return"
    /\ UNCHANGED <<called, method, input, tc_arg, language_arg, ret>>

Call_is_code ==
    /\ pc = "call"
    /\ called = "is_code"
    /\ ret' = is_code(input)
    /\ pc' = "return"
    /\ UNCHANGED <<called, method, input, tc_arg, language_arg, result>>

Call_detect_language ==
    /\ pc = "call"
    /\ called = "detect_language"
    /\ ret' = detect_language(input)
    /\ pc' = "return"
    /\ UNCHANGED <<called, method, input, tc_arg, language_arg, result>>

Call_estimate_time_complexity ==
    /\ pc = "call"
    /\ called = "estimate_time_complexity"
    /\ ret' = estimate_time_complexity(input)
    /\ pc' = "return"
    /\ UNCHANGED <<called, method, input, tc_arg, language_arg, result>>

Call_estimate_space_complexity ==
    /\ pc = "call"
    /\ called = "estimate_space_complexity"
    /\ ret' = estimate_space_complexity(input)
    /\ pc' = "return"
    /\ UNCHANGED <<called, method, input, tc_arg, language_arg, result>>

Call_estimate_compile_time ==
    /\ pc = "call"
    /\ called = "estimate_compile_time"
    /\ ret' = estimate_compile_time(language_arg)
    /\ pc' = "return"
    /\ UNCHANGED <<called, method, input, tc_arg, language_arg, result>>

Call_estimate_execution_time ==
    /\ pc = "call"
    /\ called = "estimate_execution_time"
    /\ ret' = estimate_execution_time(tc_arg, language_arg)
    /\ pc' = "return"
    /\ UNCHANGED <<called, method, input, tc_arg, language_arg, result>>

Call_speed_class ==
    /\ pc = "call"
    /\ called = "speed_class"
    /\ ret' = speed_class(tc_arg)
    /\ pc' = "return"
    /\ UNCHANGED <<called, method, input, tc_arg, language_arg, result>>

Call_platform_runtimes ==
    /\ pc = "call"
    /\ called = "platform_runtimes"
    /\ ret' = platform_runtimes(tc_arg, language_arg)
    /\ pc' = "return"
    /\ UNCHANGED <<called, method, input, tc_arg, language_arg, result>>

Next ==
    \/ index
    \/ Call_is_code
    \/ Call_detect_language
    \/ Call_estimate_time_complexity
    \/ Call_estimate_space_complexity
    \/ Call_estimate_compile_time
    \/ Call_estimate_execution_time
    \/ Call_speed_class
    \/ Call_platform_runtimes

Spec == Init /\ [][Next]_vars

(***************************************************************************)
(* Properties.  Returned(f) holds once entry point f has run.              *)
(***************************************************************************)
Returned(f) == pc = "return" /\ called = f

\* index has produced the report of the branch is_code(user_input)
CodeReported == Returned("index") /\ method = "POST" /\ result.type = "Code"

----------------------------------------------------------------------------
\* C1 as stated: the submission of the bubble-sort text yields a code report
\* with language "Python" and time_complexity "O(n^2)".
C1_AsStated ==
    (Returned("index") /\ method = "POST" /\ input = BubbleSort)
        => /\ result.type = "Code"
           /\ result.language = "Python"
           /\ result.time_complexity = "O(n^2)"

\* C1 amended: the submission of the bubble-sort text yields a code report
\* with language "Python" and time_complexity "O(n log n)": the text holds
\* "sort(" (in "bubble_sort(arr)") and two "for", and the sorting rule is
\* consulted before the two-loops rule.
C1_BubbleSortReport ==
    (Returned("index") /\ method = "POST" /\ input = BubbleSort)
        => /\ result.type = "Code"
           /\ result.language = "Python"
           /\ result.time_complexity = "O(n log n)"

C1_Witness ==
    /\ Returned("index")
    /\ method = "POST"
    /\ input = BubbleSort
    /\ result.type = "Code"
    /\ Count(input, <<"f","o","r">>) = 2
    /\ Contains(input, <<"s","o","r","t","(">>)

----------------------------------------------------------------------------
\* C2: estimate_time_complexity returns the result of the first matching
\* rule: sorting and loops >= 1 -> O(n log n); else loops >= 2 -> O(n^2);
\* else recursion -> O(n); else loops = 1 -> O(n); else O(1).  A sort call
\* with two or more loops gives O(n log n); no matched token gives O(1).
C2_DecisionOrder ==
    Returned("estimate_time_complexity") =>
        LET nloops == Count(input, <<"f","o","r">>) + Count(input, <<"w","h","i","l","e">>)
            sort == \/ Contains(input, <<"s","o","r","t","(">>)
                    \/ Contains(input, <<"s","o","r","t","e","d","(">>)
            rec == Count(input, <<"d","e","f"," ">>) > 1
            r1 == sort /\ nloops >= 1
            r2 == nloops >= 2
            r3 == rec
            r4 == nloops = 1
        IN  /\ r1 => ret = "O(n log n)"
            /\ (~r1 /\ r2) => ret = "O(n^2)"
            /\ (~r1 /\ ~r2 /\ r3) => ret = "O(n)"
            /\ (~r1 /\ ~r2 /\ ~r3 /\ r4) => ret = "O(n)"
            /\ (~r1 /\ ~r2 /\ ~r3 /\ ~r4) => ret = "O(1)"
            /\ (sort /\ nloops >= 2) => ret = "O(n log n)"
            /\ (~sort /\ nloops = 0 /\ ~rec) => ret = "O(1)"

\* A sort call and two loops
C2_Witness ==
    /\ Returned("estimate_time_complexity")
    /\ input = <<"s","o","r","t","(","f","o","r","w","h","i","l","e">>
    /\ ret = "O(n log n)"

----------------------------------------------------------------------------
\* C3: detect_language returns the label of the first matching check in the
\* order "def " -> Python, "#include" -> C / C++, "public static void main"
\* -> Java, "function" -> JavaScript, else Unknown; an input with both
\* "def " and "function" gives Python, never JavaScript.
C3_FirstMatch ==
    Returned("detect_language") =>
        LET d == Contains(input, <<"d","e","f"," ">>)
            i == Contains(input, <<"#","i","n","c","l","u","d","e">>)
            j == Contains(input, <<"p","u","b","l","i","c"," ","s","t","a","t","i","c"," ",
                                   "v","o","i","d"," ","m","a","i","n">>)
            f == Contains(input, <<"f","u","n","c","t","i","o","n">>)
        IN  /\ d => ret = "Python"
            /\ (~d /\ i) => ret = "C / C++"
            /\ (~d /\ ~i /\ j) => ret = "Java"
            /\ (~d /\ ~i /\ ~j /\ f) => ret = "JavaScript"
            /\ (~d /\ ~i /\ ~j /\ ~f) => ret = "Unknown"
            /\ (d /\ f) => (ret = "Python" /\ ret # "JavaScript")

\* Both "def " and "function" are in the input
C3_Witness ==
    /\ Returned("detect_language")
    /\ input = <<"f","u","n","c","t","i","o","n","d","e","f"," ">>
    /\ ret = "Python"

----------------------------------------------------------------------------
\* C4: is_code returns true exactly when the input holds at least one of
\* "def ", "{", "}", ";", "#include", "public static", "()"; one occurrence
\* of one of them suffices and the empty string gives false.
C4_AnySymbol ==
    Returned("is_code") =>
        LET lits == { <<"d","e","f"," ">>, <<"{">>, <<"}">>, <<";">>,
                      <<"#","i","n","c","l","u","d","e">>,
                      <<"p","u","b","l","i","c"," ","s","t","a","t","i","c">>,
                      <<"(",")">> }
        IN  /\ ret \in BOOLEAN
            /\ ret <=> (\E l \in lits : Contains(input, l))
            /\ (\E l \in lits : Count(input, l) = 1) => ret
            /\ input = <<>> => ~ret

\* A single semicolon is code
C4_Witness ==
    /\ Returned("is_code")
    /\ input = <<";">>
    /\ ret = TRUE

----------------------------------------------------------------------------
\* C5: platform_runtimes returns one value under leetcode, codeforces and
\* hackerrank, the value of estimate_execution_time for the same pair; so in
\* every code report the three runtimes and execution_time are equal, and
\* "Likely TLE" and "Higher variance (may TLE for large n)" never appear.
C5_IdenticalRuntimes ==
    LET dead == {"Likely TLE", "Higher variance (may TLE for large n)"}
    IN  /\ Returned("platform_runtimes") =>
               /\ DOMAIN ret = {"leetcode", "codeforces", "hackerrank"}
               /\ ret.leetcode = ret.codeforces
               /\ ret.codeforces = ret.hackerrank
               /\ ret.leetcode = estimate_execution_time(tc_arg, language_arg)
               /\ ret.leetcode \notin dead
        /\ CodeReported =>
               /\ result.leetcode_runtime = result.execution_time
               /\ result.codeforces_runtime = result.execution_time
               /\ result.hackerrank_runtime = result.execution_time
               /\ result.execution_time \notin dead

\* A class the unreachable returns would have treated differently
C5_Witness ==
    /\ Returned("platform_runtimes")
    /\ tc_arg = "O(n log n)"
    /\ language_arg = "Java"
    /\ ret.codeforces = "0.11 ms (n = 10^5)"

----------------------------------------------------------------------------
\* C6: estimate_execution_time reports operation_count / throughput rounded
\* to two decimals, with n = 100000, operation_count 1, n, 17 n, n n for
\* O(1), O(n), O(n log n), O(n^2) and n otherwise, throughput 5,000,000 for
\* Python, 15,000,000 for Java, 30,000,000 for C / C++ and 5,000,000
\* otherwise.  The quotients, rounded by hand:
\*                 O(1)   O(n) and others   O(n log n)   O(n^2)
\*     5,000,000   0.00   0.02              0.34         2000.00
\*    15,000,000   0.00   0.01 (0.0067)     0.11 (.1133) 666.67
\*    30,000,000   0.00   0.00 (0.0033)     0.06 (.0567) 333.33
C6_ExecutionTime ==
    Returned("estimate_execution_time") =>
        LET col == CASE tc_arg = "O(1)" -> 1
                     [] tc_arg = "O(n log n)" -> 3
                     [] tc_arg = "O(n^2)" -> 4
                     [] OTHER -> 2
            row == CASE language_arg = "Java" -> <<"0.00", "0.01", "0.11", "666.67">>
                     [] language_arg = "C / C++" -> <<"0.00", "0.00", "0.06", "333.33">>
                     [] OTHER -> <<"0.00", "0.02", "0.34", "2000.00">>
        IN  /\ ret = row[col] \o " ms (n = 10^5)"
            /\ language_arg \in {"JavaScript", "Unknown"}
                   => ret = estimate_execution_time(tc_arg, "Python")

C6_Witness ==
    /\ Returned("estimate_execution_time")
    /\ tc_arg = "O(n^2)"
    /\ language_arg = "C / C++"
    /\ ret = "333.33 ms (n = 10^5)"

----------------------------------------------------------------------------
\* C7: a submission on which is_code is false gets the fixed report (type
\* "Text / Problem Statement", both complexities "Paste code to estimate",
\* the seven other values "N/A") whatever the text; every report has exactly
\* the eleven keys; the result is None exactly when nothing was submitted.
C7_TextTemplate ==
    LET keys == {"type", "language", "time_complexity", "space_complexity",
                 "compile_time", "execution_time", "speed", "leetcode_runtime",
                 "codeforces_runtime", "hackerrank_runtime", "note"}
    IN  /\ (called = "index" /\ pc = "call") => result = None
        /\ Returned("index") => (result = None <=> method = "GET")
        /\ (Returned("index") /\ method = "POST") =>
               /\ DOMAIN result = keys
               /\ Cardinality(DOMAIN result) = 11
               /\ result.type \in {"Code", "Text / Problem Statement"}
               /\ result.type = "Code" <=> is_code(input)
               /\ ~is_code(input) =>
                      /\ result.type = "Text / Problem Statement"
                      /\ result.time_complexity = "Paste code to estimate"
                      /\ result.space_complexity = "Paste code to estimate"
                      /\ \A k \in {"language", "compile_time", "execution_time", "speed",
                                   "leetcode_runtime", "codeforces_runtime",
                                   "hackerrank_runtime"} : result[k] = "N/A"
                      /\ result.note = "Static performance analysis requires actual source code"

\* The problem statement is submitted; it holds no symbol of is_code
C7_Witness ==
    /\ Returned("index")
    /\ method = "POST"
    /\ input = ProblemStatement
    /\ result.type = "Text / Problem Statement"
    /\ result.language = "N/A"

----------------------------------------------------------------------------
\* C8: estimate_space_complexity returns O(n) exactly when the lower-cased
\* input holds one of "list", "[]", "{}", "dict", "set", and O(1) otherwise:
\* "DICT" gives O(n), a keyword inside a longer identifier counts, and
\* "arr[j]" gives O(1).
C8_ContainerKeyword ==
    Returned("estimate_space_complexity") =>
        LET kws == { <<"l","i","s","t">>, <<"[","]">>, <<"{","}">>,
                     <<"d","i","c","t">>, <<"s","e","t">> }
        IN  /\ ret \in {"O(n)", "O(1)"}
            /\ ret = "O(n)" <=> (\E k \in kws : Contains(Lower(input), k))
            /\ input = <<"D","I","C","T">> => ret = "O(n)"
            /\ input = <<"S","e","t","x">> => ret = "O(n)"
            /\ input = <<"d","a","t","a"," ","="," ","[","]">> => ret = "O(n)"
            /\ input = <<"a","r","r","[","j","]">> => ret = "O(1)"
            /\ input = <<"x"," ","="," ","1">> => ret = "O(1)"

C8_Witness ==
    /\ Returned("estimate_space_complexity")
    /\ input = <<"D","I","C","T">>
    /\ ret = "O(n)"

----------------------------------------------------------------------------
\* C9: in every code report time_complexity is O(1), O(n), O(n log n) or
\* O(n^2), never O(log n), and (time_complexity, speed) is (O(1), Very
\* Fast), (O(n), Fast), (O(n log n), Risky) or (O(n^2), Slow).
C9_SpeedPairs ==
    CodeReported =>
        /\ result.time_complexity \in {"O(1)", "O(n)", "O(n log n)", "O(n^2)"}
        /\ result.time_complexity # "O(log n)"
        /\ <<result.time_complexity, result.speed>> \in
               { <<"O(1)", "Very Fast">>, <<"O(n)", "Fast">>,
                 <<"O(n log n)", "Risky">>, <<"O(n^2)", "Slow">> }

C9_Witness ==
    /\ CodeReported
    /\ result.time_complexity = "O(n log n)"
    /\ result.speed = "Risky"

----------------------------------------------------------------------------
\* C10: an input for which detect_language returns Python, C / C++ or Java
\* is code for is_code, so it never gets the text report; a code report
\* whose language is JavaScript or Unknown has compile_time "Unknown".
C10_DetectedIsCode ==
    LET three == {"Python", "C / C++", "Java"}
    IN  /\ (Returned("detect_language") /\ ret \in three) => is_code(input)
        /\ (Returned("is_code") /\ ~ret) => detect_language(input) \notin three
        /\ (Returned("index") /\ method = "POST" /\ detect_language(input) \in three) =>
               /\ result.type = "Code"
               /\ result.language = detect_language(input)
        /\ (CodeReported /\ result.language \notin three) =>
               /\ result.language \in {"JavaScript", "Unknown"}
               /\ result.compile_time = "Unknown"

\* A Java input is reported as code
C10_Witness ==
    /\ CodeReported
    /\ result.language = "Java"
    /\ ~Contains(input, <<"{">>)
    /\ ~Contains(input, <<";">>)

\* The converse fails: "function" alone is JavaScript for detect_language and
\* gets the text report
C10_FunctionIsText ==
    /\ Returned("index")
    /\ method = "POST"
    /\ input = <<"f","u","n","c","t","i","o","n">>
    /\ detect_language(input) = "JavaScript"
    /\ result.type = "Text / Problem Statement"

\* A code report with language "Unknown" and compile_time "Unknown"
C10_UnknownCode ==
    /\ CodeReported
    /\ result.language = "Unknown"
    /\ result.compile_time = "Unknown"

\* A code report with language "JavaScript" and compile_time "Unknown"
C10_JavaScriptCode ==
    /\ CodeReported
    /\ result.language = "JavaScript"
    /\ result.compile_time = "Unknown"

=============================================================================
